---- MODULE Spec2Model ----
(***************************************************************************)
(* anvil/distributions.py: the base distributions (NormalDist,             *)
(* UniformDist, SemicircleDist, VonMisesDist, SphericalUniformDist) and    *)
(* the lattice actions (PhiFourAction, O2Action, O3Action).                *)
(* anvil/utils.py: Multiprocessing.                                        *)
(*                                                                         *)
(* Real numbers are kept exact.                                            *)
(*  - a rational is an integer in units of 1/QDen ("q-units");             *)
(*  - a planar angle is an integer in units of pi/3 (Pi == 3);             *)
(*  - a polar angle theta in [0, pi] is kept as acos(c): the tensor entry  *)
(*    is the cosine c in q-units, so that cos and sin are both rational;   *)
(*  - a logarithm is a vector of coefficients, in units of 1/2, over the   *)
(*    basis ln 2, ln 3, ln 5, ln pi, ln I0(1), ln I0(2), which are         *)
(*    linearly independent over the rationals.                             *)
(* A log-density is a Num: rational part + logarithm part + the IEEE       *)
(* specials torch.log produces (-inf for log(0), nan for log(x<0)).        *)
(***************************************************************************)
EXTENDS Integers, Sequences, FiniteSets, TLC

VARIABLES
    obj,            \* the distribution or action object, NoObj before construction
    ctor,           \* the constructor call obj came from
    cfg,            \* the configuration tensor the caller holds
    ret,            \* the log-density tensor the last call returned
    err,            \* the exception the last call raised, "none" if it returned
    op,             \* the last call
    gen_log_prob,   \* after VonMisesDist.__call__: the generator's own log_prob of its draw
    default_generator,  \* torch's default random generator: how many numbers it has produced
    threads,        \* the concurrent invocations of a distribution's methods
    mp,             \* the Multiprocessing object, NoObj before construction
    procs,          \* Multiprocessing.__call__: the worker processes started so far
    output_dict,    \* Multiprocessing.__call__: the manager's dictionary
    writes,         \* history: the pairs <<key, worker>> of the assignments to output_dict
    main            \* Multiprocessing.__call__: the position of the calling process

\* the state of one distribution or action and its caller
dist_vars == <<obj, ctor, cfg, ret, err, op, gen_log_prob>>

\* the state of concurrent sampling
sampler_vars == <<default_generator, threads>>

\* the state of utils.Multiprocessing
mp_vars == <<mp, procs, output_dict, writes, main>>

vars == <<dist_vars, sampler_vars, mp_vars>>

(* ------------------------------ bounds --------------------------------- *)

\* largest n_lattice a base distribution is constructed with
MaxLattice == 2
\* largest sample_size (batch dimension)
MaxBatch == 2
\* largest side length of the periodic square lattice
MaxLength == 3
\* largest number of parameter sets the generator of Multiprocessing yields
MaxIters == 4
\* largest mp.cpu_count()
MaxCores == 3

(* --------------------------- exact numbers ----------------------------- *)

\* denominator of the rational unit: 600 = 2^3 * 3 * 5^2
QDen == 2 * 2 * 2 * 3 * 5 * 5

\* math.pi as a planar angle, in units of pi/3
Pi == 3

Q(n) == n * QDen

Abs(n) == IF n < 0 THEN -n ELSE n

Sign(n) == IF n < 0 THEN -1 ELSE IF n = 0 THEN 0 ELSE 1

\* a value the number representation cannot hold: evaluating it stops TLC
Unrepresentable == CHOOSE x \in {} : TRUE

\* exact product and quotient of two rationals in q-units
QMul(a, b) == IF (a * b) % QDen = 0 THEN (a * b) \div QDen ELSE Unrepresentable

QDiv(a, b) == IF (a * QDen) % b = 0 THEN (a * QDen) \div b ELSE Unrepresentable

RECURSIVE SqrtBetween(_, _, _)
\* the largest s in lo..hi with s * s <= n
SqrtBetween(lo, hi, n) ==
    IF lo >= hi THEN lo
    ELSE LET mid == (lo + hi + 1) \div 2
         IN  IF mid * mid <= n THEN SqrtBetween(mid, hi, n) ELSE SqrtBetween(lo, mid - 1, n)

\* exact square root of a rational >= 0 in q-units
QSqrt(a) ==
    LET s == SqrtBetween(0, a + QDen, a * QDen)
    IN  IF s * s = a * QDen THEN s ELSE Unrepresentable

RECURSIVE Val(_, _)
\* the exponent of the prime p in n > 0
Val(p, n) == IF n % p = 0 THEN 1 + Val(p, n \div p) ELSE 0

RECURSIVE Pow(_, _)
Pow(b, e) == IF e = 0 THEN 1 ELSE b * Pow(b, e - 1)

Smooth(n) == n > 0 /\ n = Pow(2, Val(2, n)) * Pow(3, Val(3, n)) * Pow(5, Val(5, n))

LogBasis == {"2", "3", "5", "pi", "I0(1)", "I0(2)"}

ZeroLg == [p \in LogBasis |-> 0]

\* ln(n / d) for rationals with only the primes 2, 3, 5; coefficients in halves
LgOfRatio(n, d) ==
    IF Smooth(n) /\ Smooth(d)
    THEN [p \in LogBasis |->
            CASE p = "2" -> 2 * (Val(2, n) - Val(2, d))
              [] p = "3" -> 2 * (Val(3, n) - Val(3, d))
              [] p = "5" -> 2 * (Val(5, n) - Val(5, d))
              [] OTHER -> 0]
    ELSE Unrepresentable

(* A Python float built by the constructors: sign and, when nonzero, the   *)
(* logarithm of its absolute value.                                        *)
SymZero == [sgn |-> 0, ex |-> ZeroLg]

SymQ(q) == IF q = 0 THEN SymZero ELSE [sgn |-> Sign(q), ex |-> LgOfRatio(Abs(q), QDen)]

SymPi == [sgn |-> 1, ex |-> [ZeroLg EXCEPT !["pi"] = 2]]

SymMul(a, b) ==
    IF a.sgn * b.sgn = 0 THEN SymZero
    ELSE [sgn |-> a.sgn * b.sgn, ex |-> [p \in LogBasis |-> a.ex[p] + b.ex[p]]]

SymDiv(a, b) ==
    IF a.sgn = 0 THEN SymZero
    ELSE [sgn |-> a.sgn * b.sgn, ex |-> [p \in LogBasis |-> a.ex[p] - b.ex[p]]]

SymSqrt(a) ==
    IF a.sgn = 0 THEN SymZero
    ELSE IF \A p \in LogBasis : a.ex[p] % 2 = 0
         THEN [sgn |-> 1, ex |-> [p \in LogBasis |-> a.ex[p] \div 2]]
         ELSE Unrepresentable

\* scipy.special.i0: even, positive, i0(0) = 1
SymI0(kappa) ==
    IF kappa = 0 THEN SymQ(Q(1))
    ELSE IF Abs(kappa) = Q(1) THEN [sgn |-> 1, ex |-> [ZeroLg EXCEPT !["I0(1)"] = 2]]
    ELSE IF Abs(kappa) = Q(2) THEN [sgn |-> 1, ex |-> [ZeroLg EXCEPT !["I0(2)"] = 2]]
    ELSE Unrepresentable

(* A real value of a log-density tensor. *)
NumQ(q) == [q |-> q, lg |-> ZeroLg, ninf |-> 0, pinf |-> 0, nan |-> FALSE]

NumLg(lg) == [q |-> 0, lg |-> lg, ninf |-> 0, pinf |-> 0, nan |-> FALSE]

NegInf == [q |-> 0, lg |-> ZeroLg, ninf |-> 1, pinf |-> 0, nan |-> FALSE]

NaN == [q |-> 0, lg |-> ZeroLg, ninf |-> 0, pinf |-> 0, nan |-> TRUE]

\* canonical form: nan absorbs everything, an infinity absorbs the finite part
Norm(a) ==
    IF a.nan \/ (a.ninf > 0 /\ a.pinf > 0) THEN NaN
    ELSE IF a.ninf > 0 THEN NegInf
    ELSE IF a.pinf > 0 THEN [NegInf EXCEPT !.ninf = 0, !.pinf = 1]
    ELSE a

NAdd(a, b) ==
    Norm([q |-> a.q + b.q, lg |-> [p \in LogBasis |-> a.lg[p] + b.lg[p]],
          ninf |-> a.ninf + b.ninf, pinf |-> a.pinf + b.pinf, nan |-> a.nan \/ b.nan])

NNeg(a) ==
    Norm([q |-> -a.q, lg |-> [p \in LogBasis |-> -a.lg[p]],
          ninf |-> a.pinf, pinf |-> a.ninf, nan |-> a.nan])

NSub(a, b) == NAdd(a, NNeg(b))

\* n * a for an integer n >= 1
NScale(n, a) ==
    Norm([q |-> n * a.q, lg |-> [p \in LogBasis |-> n * a.lg[p]],
          ninf |-> n * a.ninf, pinf |-> n * a.pinf, nan |-> a.nan])

\* 0.5 * a
NHalf(a) ==
    IF a.q % 2 = 0 /\ \A p \in LogBasis : a.lg[p] % 2 = 0
    THEN Norm([q |-> a.q \div 2, lg |-> [p \in LogBasis |-> a.lg[p] \div 2],
               ninf |-> a.ninf, pinf |-> a.pinf, nan |-> a.nan])
    ELSE Unrepresentable

\* math.log of a Python float: raises ValueError outside (0, inf)
MathLog(x) ==
    IF x.sgn <= 0 THEN [ok |-> FALSE, err |-> "ValueError"]
    ELSE [ok |-> TRUE, val |-> NumLg(x.ex)]

\* torch.log of one tensor entry (a rational in q-units): never raises
TorchLog(q) ==
    IF q < 0 THEN NaN
    ELSE IF q = 0 THEN NegInf
    ELSE NumLg(LgOfRatio(q, QDen))

\* torch.cos of a planar angle (units of pi/3), in q-units
TorchCos(k) ==
    LET r == k % (2 * Pi)
    IN  CASE r = 0 -> Q(1)
          [] r = 1 -> Q(1) \div 2
          [] r = 2 -> -(Q(1) \div 2)
          [] r = 3 -> -Q(1)
          [] r = 4 -> -(Q(1) \div 2)
          [] r = 5 -> Q(1) \div 2

RECURSIVE ISum(_)
\* sum of a sequence of rationals
ISum(s) == IF s = <<>> THEN 0 ELSE Head(s) + ISum(Tail(s))

RECURSIVE NSum(_)
\* sum of a sequence of Num
NSum(s) == IF s = <<>> THEN NumQ(0) ELSE NAdd(Head(s), NSum(Tail(s)))

\* the tensors of shape (n, f, l) with entries in V
Tensors(n, f, l, V) == [1..n -> [1..f -> [1..l -> V]]]

NoObj == [kind |-> "none"]

Failed(e) == [ok |-> FALSE, err |-> e]

Built(o) == [ok |-> TRUE, obj |-> o]

(* ------------------------------ NormalDist ----------------------------- *)

NormalDist_init(n_lattice, sigma, mean) ==
    IF sigma = 0 THEN Failed("ZeroDivisionError")
    ELSE LET norm == MathLog(SymMul(SymSqrt(SymMul(SymQ(Q(2)), SymPi)), SymQ(sigma)))
         IN  IF ~norm.ok THEN Failed(norm.err)
             ELSE Built([kind |-> "NormalDist",
                         dimensions |-> <<1, n_lattice>>,
                         sigma |-> sigma,
                         mean |-> mean,
                         exp_coeff |-> QDiv(Q(1), 2 * QMul(sigma, sigma)),
                         log_normalisation |-> NScale(n_lattice, norm.val)])

NormalDist_log_density(self, sample) ==
    [b \in 1..Len(sample) |-> [f \in 1..Len(sample[b]) |->
        NSub(NumQ(-QMul(self.exp_coeff,
                        ISum([s \in 1..Len(sample[b][f]) |->
                                QMul(sample[b][f][s] - self.mean,
                                     sample[b][f][s] - self.mean)]))),
             self.log_normalisation)]]

\* z: the standard normal deviates normal_() draws, shape (sample_size, 1, n_lattice)
NormalDist_call(self, z) ==
    LET sample == [b \in 1..Len(z) |-> [f \in 1..Len(z[b]) |->
                     [s \in 1..Len(z[b][f]) |-> self.mean + QMul(self.sigma, z[b][f][s])]]]
    IN  [sample |-> sample, log_density |-> NormalDist_log_density(self, sample)]

(* ------------------------------ UniformDist ---------------------------- *)

UniformDist_init(n_lattice, support) ==
    LET x_min == support[1]
        x_max == support[2]
        norm == MathLog(SymQ(x_max - x_min))
    IN  IF ~norm.ok THEN Failed(norm.err)
        ELSE Built([kind |-> "UniformDist",
                    dimensions |-> <<1, n_lattice>>,
                    x_min |-> x_min,
                    x_max |-> x_max,
                    log_normalisation |-> norm.val])

\* the lambda stored in self.log_density
UniformDist_log_density(self, sample) ==
    [b \in 1..Len(sample) |-> [f \in 1..1 |-> NSub(NumQ(0), self.log_normalisation)]]

\* u: the draws of uniform_() rescaled to [0, 1)
UniformDist_call(self, u) ==
    LET sample == [b \in 1..Len(u) |-> [f \in 1..Len(u[b]) |->
                     [s \in 1..Len(u[b][f]) |->
                        self.x_min + QMul(self.x_max - self.x_min, u[b][f][s])]]]
    IN  [sample |-> sample, log_density |-> UniformDist_log_density(self, sample)]

(* ----------------------------- SemicircleDist -------------------------- *)

SemicircleDist_init(n_lattice, radius, mean) ==
    LET norm == MathLog(SymDiv(SymMul(SymPi, SymQ(QMul(radius, radius))), SymQ(Q(2))))
    IN  IF ~norm.ok THEN Failed(norm.err)
        ELSE Built([kind |-> "SemicircleDist",
                    dimensions |-> <<1, n_lattice>>,
                    radius |-> radius,
                    mean |-> mean,
                    log_normalisation |-> NScale(n_lattice, norm.val)])

SemicircleDist_log_density(self, sample) ==
    [b \in 1..Len(sample) |-> [f \in 1..Len(sample[b]) |->
        NSub(NSum([s \in 1..Len(sample[b][f]) |->
                     NHalf(TorchLog(QMul(self.radius, self.radius)
                                    - QMul(sample[b][f][s] - self.mean,
                                           sample[b][f][s] - self.mean)))]),
             self.log_normalisation)]]

\* SemicircleDist_call scaling by radius ** 2
SemicircleDist_call_squared(self, uv) ==
    LET sample == [b \in 1..Len(uv) |-> [f \in 1..Len(uv[b]) |->
                     [s \in 1..Len(uv[b][f]) |->
                        QMul(QMul(QMul(self.radius, self.radius), QSqrt(uv[b][f][s][1])),
                             TorchCos(uv[b][f][s][2])) + self.mean]]]
    IN  [sample |-> sample, log_density |-> SemicircleDist_log_density(self, sample)]

\* uv: per entry the pair <<u, v>>, u from uniform_() in [0, 1) (q-units),
\* v from uniform_(0, pi) in [0, pi) (angle units)
SemicircleDist_call(self, uv) ==
    LET sample == [b \in 1..Len(uv) |-> [f \in 1..Len(uv[b]) |->
                     [s \in 1..Len(uv[b][f]) |->
                        QMul(QMul(self.radius, QSqrt(uv[b][f][s][1])),
                             TorchCos(uv[b][f][s][2])) + self.mean]]]
    IN  [sample |-> sample, log_density |-> SemicircleDist_log_density(self, sample)]

(* ------------------------------ VonMisesDist --------------------------- *)

(* torch.distributions.von_mises.VonMises(loc, concentration): sample()     *)
(* returns angles in [-pi, pi) with density                                 *)
(* exp(concentration * cos(y - loc)) / (2 pi I0(concentration)); the class  *)
(* docstring pins PyTorch 1.5, whose distributions do not validate their    *)
(* arguments unless asked to.                                               *)
VonMises_support == (-Pi)..(Pi - 1)

\* VonMises(loc, concentration).log_prob(y), summed over the lattice sites
VonMises_log_prob(loc, concentration, y) ==
    [b \in 1..Len(y) |-> [f \in 1..Len(y[b]) |->
        NSum([s \in 1..Len(y[b][f]) |->
                NSub(NumQ(QMul(concentration, TorchCos(y[b][f][s] - loc))),
                     NumLg(SymMul(SymMul(SymQ(Q(2)), SymPi), SymI0(concentration)).ex))])]]

VonMisesDist_init(n_lattice, concentration, mean) ==
    LET norm == MathLog(SymMul(SymMul(SymQ(Q(2)), SymPi), SymI0(concentration)))
    IN  IF ~norm.ok THEN Failed(norm.err)
        ELSE Built([kind |-> "VonMisesDist",
                    dimensions |-> <<1, n_lattice>>,
                    kappa |-> concentration,
                    mean |-> mean,
                    log_normalisation |-> NScale(n_lattice, norm.val),
                    generator |-> [loc |-> mean, concentration |-> concentration]])

VonMisesDist_log_density(self, sample) ==
    [b \in 1..Len(sample) |-> [f \in 1..Len(sample[b]) |->
        NSub(NumQ(QMul(self.kappa,
                       ISum([s \in 1..Len(sample[b][f]) |->
                               TorchCos(sample[b][f][s] - self.mean)]))),
             self.log_normalisation)]]

\* y: what self.generator returned, shape (sample_size, 1, n_lattice)
VonMisesDist_call(self, y) ==
    LET sample == [b \in 1..Len(y) |-> [f \in 1..Len(y[b]) |->
                     [s \in 1..Len(y[b][f]) |-> y[b][f][s] + Pi]]]
    IN  [sample |-> sample, log_density |-> VonMisesDist_log_density(self, sample)]

(* -------------------------- SphericalUniformDist ----------------------- *)

SphericalUniformDist_init(n_lattice) ==
    Built([kind |-> "SphericalUniformDist",
           dimensions |-> <<2, n_lattice>>,
           n_lattice |-> n_lattice])

\* torch.sin of a polar angle acos(c)
SinPolar(c) == QSqrt(Q(1) - QMul(c, c))

\* sample[:, 0, :] is the polar component
SphericalUniformDist_log_density(self, sample) ==
    [b \in 1..Len(sample) |-> [f \in 1..1 |->
        NSum([s \in 1..Len(sample[b][1]) |-> TorchLog(SinPolar(sample[b][1][s]))])]]

\* SphericalUniformDist_call with the inline log-density taken of cos(polar)
SphericalUniformDist_call_cos(self, r) ==
    LET polar == [b \in 1..Len(r) |-> [f \in 1..1 |->
                    [s \in 1..Len(r[b][1]) |-> Q(1) - 2 * r[b][1][s][1]]]]
        azimuth == [b \in 1..Len(r) |-> [f \in 1..1 |->
                      [s \in 1..Len(r[b][1]) |-> (r[b][1][s][2] * 2 * Pi) \div QDen]]]
        log_density == [b \in 1..Len(r) |-> [f \in 1..1 |->
                          NSum([s \in 1..Len(polar[b][f]) |-> TorchLog(polar[b][f][s])])]]
        sample == [b \in 1..Len(r) |-> polar[b] \o azimuth[b]]
    IN  [sample |-> sample, log_density |-> log_density]

\* r: per entry the pair <<u, w>> of the two torch.rand draws in [0, 1),
\* shape (sample_size, 1, n_lattice)
SphericalUniformDist_call(self, r) ==
    LET polar == [b \in 1..Len(r) |-> [f \in 1..1 |->
                    [s \in 1..Len(r[b][1]) |-> Q(1) - 2 * r[b][1][s][1]]]]
        azimuth == [b \in 1..Len(r) |-> [f \in 1..1 |->
                      [s \in 1..Len(r[b][1]) |-> (r[b][1][s][2] * 2 * Pi) \div QDen]]]
        log_density == [b \in 1..Len(r) |-> [f \in 1..1 |->
                          NSum([s \in 1..Len(polar[b][f]) |->
                                  TorchLog(SinPolar(polar[b][f][s]))])]]
        sample == [b \in 1..Len(r) |-> polar[b] \o azimuth[b]]
    IN  [sample |-> sample, log_density |-> log_density]

(* ------------------- the distributions as a state machine -------------- *)

\* constructor arguments tried, valid and invalid
Sigmas == {Q(-1), 0, Q(1), Q(2)}
Means == {0, Q(1)}
Supports == {<<0, Q(1)>>, <<Q(-1), Q(1)>>, <<Q(1), Q(1)>>, <<Q(1), 0>>}
Radii == {Q(-2), 0, Q(2)}
Concentrations == {Q(-1), 0, Q(1), Q(2)}
AngleMeans == {0, 1}

\* outcomes of the random draws, per tensor entry
NormalDraws == {Q(-1), Q(2)}
UniformDraws == {0, Q(1) \div 2}
SemicircleDraws == {<<Q(16) \div 25, 0>>, <<Q(1) \div 4, 2>>}
VonMisesDraws == {0, -2} \cap VonMises_support
SphericalDraws == {<<Q(1) \div 5, 0>>, <<Q(1) \div 2, Q(1) \div 6>>}

NoTensor == <<>>

\* nothing samples concurrently
NoSampling == default_generator = 0 /\ threads = <<>>

\* utils.Multiprocessing is not in use
NoMultiprocessing ==
    /\ mp = NoObj
    /\ procs = <<>>
    /\ output_dict = <<>>
    /\ writes = {}
    /\ main = [pc |-> "idle"]

Init ==
    /\ obj = NoObj
    /\ ctor = [fn |-> "none"]
    /\ cfg = NoTensor
    /\ ret = NoTensor
    /\ err = "none"
    /\ op = [fn |-> "none"]
    /\ gen_log_prob = NoTensor
    /\ NoSampling
    /\ NoMultiprocessing

Fresh == obj = NoObj /\ err = "none"

\* the effect of a constructor call with outcome r
Construct(r, call) ==
    /\ obj' = IF r.ok THEN r.obj ELSE NoObj
    /\ err' = IF r.ok THEN "none" ELSE r.err
    /\ op' = call
    /\ ctor' = call
    /\ UNCHANGED <<cfg, ret, gen_log_prob>>
    /\ UNCHANGED <<sampler_vars, mp_vars>>

\* a __call__ that keeps the batch size in self.dimensions
Sampled_resizing(r, call, glp) ==
    /\ cfg' = r.sample
    /\ ret' = r.log_density
    /\ op' = call
    /\ gen_log_prob' = glp
    /\ obj' = [obj EXCEPT !.dimensions = <<Len(r.sample)>> \o @]
    /\ UNCHANGED <<ctor, err>>
    /\ UNCHANGED <<sampler_vars, mp_vars>>

\* the effect of a __call__ returning the tuple r
Sampled(r, call, glp) ==
    /\ cfg' = r.sample
    /\ ret' = r.log_density
    /\ op' = call
    /\ gen_log_prob' = glp
    /\ UNCHANGED <<obj, ctor, err>>
    /\ UNCHANGED <<sampler_vars, mp_vars>>

\* the effect of log_density(cfg) returning r
Evaluated(r, call) ==
    /\ ret' = r
    /\ op' = call
    /\ UNCHANGED <<obj, ctor, cfg, err, gen_log_prob>>
    /\ UNCHANGED <<sampler_vars, mp_vars>>

NormalInit ==
    /\ Fresh
    /\ \E n \in 1..MaxLattice, sigma \in Sigmas, mean \in Means :
           Construct(NormalDist_init(n, sigma, mean),
                     [fn |-> "NormalDist.__init__", n_lattice |-> n, sigma |-> sigma,
                      mean |-> mean])

UniformInit ==
    /\ Fresh
    /\ \E n \in 1..MaxLattice, support \in Supports :
           Construct(UniformDist_init(n, support),
                     [fn |-> "UniformDist.__init__", n_lattice |-> n, support |-> support])

SemicircleInit ==
    /\ Fresh
    /\ \E n \in 1..MaxLattice, radius \in Radii, mean \in Means :
           Construct(SemicircleDist_init(n, radius, mean),
                     [fn |-> "SemicircleDist.__init__", n_lattice |-> n, radius |-> radius,
                      mean |-> mean])

VonMisesInit ==
    /\ Fresh
    /\ \E n \in 1..MaxLattice, concentration \in Concentrations, mean \in AngleMeans :
           Construct(VonMisesDist_init(n, concentration, mean),
                     [fn |-> "VonMisesDist.__init__", n_lattice |-> n,
                      concentration |-> concentration, mean |-> mean])

SphericalUniformInit ==
    /\ Fresh
    /\ \E n \in 1..MaxLattice :
           Construct(SphericalUniformDist_init(n),
                     [fn |-> "SphericalUniformDist.__init__", n_lattice |-> n])

NormalCall ==
    /\ obj.kind = "NormalDist"
    /\ cfg = NoTensor
    /\ \E n \in 1..MaxBatch :
         \E z \in Tensors(n, obj.dimensions[1], obj.dimensions[2], NormalDraws) :
            Sampled(NormalDist_call(obj, z),
                    [fn |-> "NormalDist.__call__", sample_size |-> n], NoTensor)

UniformCall ==
    /\ obj.kind = "UniformDist"
    /\ cfg = NoTensor
    /\ \E n \in 1..MaxBatch :
         \E u \in Tensors(n, obj.dimensions[1], obj.dimensions[2], UniformDraws) :
            Sampled(UniformDist_call(obj, u),
                    [fn |-> "UniformDist.__call__", sample_size |-> n], NoTensor)

SemicircleCall ==
    /\ obj.kind = "SemicircleDist"
    /\ cfg = NoTensor
    /\ \E n \in 1..MaxBatch :
         \E uv \in Tensors(n, obj.dimensions[1], obj.dimensions[2], SemicircleDraws) :
            Sampled(SemicircleDist_call(obj, uv),
                    [fn |-> "SemicircleDist.__call__", sample_size |-> n], NoTensor)

\* the sampler is only modelled inside its domain, concentration >= 0
VonMisesCall ==
    /\ obj.kind = "VonMisesDist"
    /\ cfg = NoTensor
    /\ obj.kappa >= 0
    /\ \E n \in 1..MaxBatch :
         \E y \in Tensors(n, obj.dimensions[1], obj.dimensions[2], VonMisesDraws) :
            Sampled(VonMisesDist_call(obj, y),
                    [fn |-> "VonMisesDist.__call__", sample_size |-> n],
                    VonMises_log_prob(obj.generator.loc, obj.generator.concentration, y))

SphericalUniformCall ==
    /\ obj.kind = "SphericalUniformDist"
    /\ cfg = NoTensor
    /\ \E n \in 1..MaxBatch :
         \E r \in Tensors(n, 1, obj.n_lattice, SphericalDraws) :
            Sampled(SphericalUniformDist_call(obj, r),
                    [fn |-> "SphericalUniformDist.__call__", sample_size |-> n], NoTensor)

NormalLogDensity ==
    /\ obj.kind = "NormalDist" /\ cfg # NoTensor
    /\ Evaluated(NormalDist_log_density(obj, cfg), [fn |-> "NormalDist.log_density"])

UniformLogDensity ==
    /\ obj.kind = "UniformDist" /\ cfg # NoTensor
    /\ Evaluated(UniformDist_log_density(obj, cfg), [fn |-> "UniformDist.log_density"])

SemicircleLogDensity ==
    /\ obj.kind = "SemicircleDist" /\ cfg # NoTensor
    /\ Evaluated(SemicircleDist_log_density(obj, cfg), [fn |-> "SemicircleDist.log_density"])

VonMisesLogDensity ==
    /\ obj.kind = "VonMisesDist" /\ cfg # NoTensor
    /\ Evaluated(VonMisesDist_log_density(obj, cfg), [fn |-> "VonMisesDist.log_density"])

SphericalUniformLogDensity ==
    /\ obj.kind = "SphericalUniformDist" /\ cfg # NoTensor
    /\ Evaluated(SphericalUniformDist_log_density(obj, cfg),
                 [fn |-> "SphericalUniformDist.log_density"])

\* the caller lets go of the tensors the last call returned
Discard ==
    /\ cfg # NoTensor
    /\ cfg' = NoTensor
    /\ ret' = NoTensor
    /\ gen_log_prob' = NoTensor
    /\ op' = [fn |-> "discard"]
    /\ UNCHANGED <<obj, ctor, err>>
    /\ UNCHANGED <<sampler_vars, mp_vars>>

\* values of the configurations a caller passes to log_density without
\* having sampled them from the distribution: field values, or angles
SuppliedValues(kind) == IF kind = "VonMisesDist" THEN {1, 3} ELSE {Q(1), Q(3)}

\* the caller holds a configuration of the distribution's shape that the
\* distribution did not produce
Supply ==
    /\ obj.kind \in {"NormalDist", "UniformDist", "SemicircleDist", "VonMisesDist"}
    /\ cfg = NoTensor
    /\ \E n \in 1..MaxBatch :
         \E t \in Tensors(n, obj.dimensions[1], obj.dimensions[2], SuppliedValues(obj.kind)) :
            cfg' = t
    /\ ret' = NoTensor
    /\ gen_log_prob' = NoTensor
    /\ op' = [fn |-> "supply"]
    /\ UNCHANGED <<obj, ctor, err>>
    /\ UNCHANGED <<sampler_vars, mp_vars>>

Next ==
    \/ NormalInit \/ UniformInit \/ SemicircleInit \/ VonMisesInit \/ SphericalUniformInit
    \/ NormalCall \/ UniformCall \/ SemicircleCall \/ VonMisesCall \/ SphericalUniformCall
    \/ NormalLogDensity \/ UniformLogDensity \/ SemicircleLogDensity
    \/ VonMisesLogDensity \/ SphericalUniformLogDensity
    \/ Discard \/ Supply

Spec == Init /\ [][Next]_vars

(* ------------------------------- geometry ------------------------------ *)

(* Geometry2D(length).get_shift(): for each of the two positive lattice     *)
(* directions, the index of every site's neighbour under periodic           *)
(* wraparound.  Sites are numbered 1..length^2, row-major.                  *)
get_shift(length) ==
    [d \in 1..2 |-> [s \in 1..(length * length) |->
        LET x == (s - 1) \div length
            y == (s - 1) % length
        IN  IF d = 1 THEN ((x + 1) % length) * length + y + 1
            ELSE x * length + ((y + 1) % length) + 1]]

(* ---------------------------- tensor operations ------------------------ *)

\* Gather indexing with the first shift direction only
Gather_first_direction(t, shift) ==
    [b \in 1..Len(t) |-> [f \in 1..Len(t[b]) |->
        [d \in 1..1 |-> [s \in 1..Len(shift[d]) |-> t[b][f][shift[d][s]]]]]]

\* t[..., shift]: shape (n, f, directions, len(shift[d]))
Gather(t, shift) ==
    [b \in 1..Len(t) |-> [f \in 1..Len(t[b]) |->
        [d \in 1..Len(shift) |-> [s \in 1..Len(shift[d]) |-> t[b][f][shift[d][s]]]]]]

\* t.unsqueeze(dim=2): shape (n, f, 1, l)
Unsqueeze2(t) == [b \in 1..Len(t) |-> [f \in 1..Len(t[b]) |-> <<t[b][f]>>]]

\* the last dimension of a tensor of shape (n, f, l)
LastDim(t) == Len(t[1][1])

(* What indexing a configuration of n_lattice sites with the shift table    *)
(* and combining the result with configuration.unsqueeze(2) raises: an      *)
(* index beyond the last dimension is an IndexError, two last dimensions    *)
(* that differ and are not 1 do not broadcast (RuntimeError).               *)
ShapeFault(self, t) ==
    IF \E d \in 1..Len(self.shift) : \E s \in 1..Len(self.shift[d]) :
          self.shift[d][s] > LastDim(t)
    THEN "IndexError"
    ELSE IF LastDim(t) # Len(self.shift[1]) /\ LastDim(t) # 1 /\ Len(self.shift[1]) # 1
    THEN "RuntimeError"
    ELSE "none"

(* ----------------------------- PhiFourAction --------------------------- *)

\* PhiFourAction_init with the two conventions exchanged
PhiFourAction_init_exchanged(m_sq, lam, length, use_arxiv_version) ==
    Built([kind |-> "PhiFourAction",
           dimensions |-> <<1, length * length>>,
           lam |-> lam,
           m_sq |-> m_sq,
           version_factor |-> IF use_arxiv_version THEN 1 ELSE 2,
           shift |-> get_shift(length)])

PhiFourAction_init(m_sq, lam, length, use_arxiv_version) ==
    Built([kind |-> "PhiFourAction",
           dimensions |-> <<1, length * length>>,
           lam |-> lam,
           m_sq |-> m_sq,
           version_factor |-> IF use_arxiv_version THEN 2 ELSE 1,
           shift |-> get_shift(length)])

\* PhiFourAction_log_density with the quartic term scaled by version_factor too
PhiFourAction_log_density_scaled_quartic(self, phi_state) ==
    LET nb == Gather(phi_state, self.shift)
        here == Unsqueeze2(phi_state)
        coupling == [b \in 1..Len(nb) |-> [f \in 1..Len(nb[b]) |->
                       [s \in 1..Len(nb[b][f][1]) |->
                          ISum([d \in 1..Len(nb[b][f]) |->
                                  QMul(nb[b][f][d][s], here[b][f][1][s])])]]]
        pow2 == [b \in 1..Len(phi_state) |-> [f \in 1..Len(phi_state[b]) |->
                   [s \in 1..Len(phi_state[b][f]) |->
                      QMul(phi_state[b][f][s], phi_state[b][f][s])]]]
        action == [b \in 1..Len(phi_state) |-> [f \in 1..Len(phi_state[b]) |->
                     ISum([s \in 1..Len(phi_state[b][f]) |->
                             QMul(self.version_factor * (Q(2) + QMul(Q(1) \div 2, self.m_sq)),
                                  pow2[b][f][s])
                             + self.version_factor
                               * QMul(self.lam, QMul(pow2[b][f][s], pow2[b][f][s]))
                             - self.version_factor * coupling[b][f][s]])]]
    IN  [b \in 1..Len(action) |-> [f \in 1..Len(action[b]) |-> NumQ(-action[b][f])]]

PhiFourAction_log_density(self, phi_state) ==
    LET nb == Gather(phi_state, self.shift)
        here == Unsqueeze2(phi_state)
        \* torch.sum(phi_state[..., shift] * phi_state.unsqueeze(dim=2), dim=2)
        coupling == [b \in 1..Len(nb) |-> [f \in 1..Len(nb[b]) |->
                       [s \in 1..Len(nb[b][f][1]) |->
                          ISum([d \in 1..Len(nb[b][f]) |->
                                  QMul(nb[b][f][d][s], here[b][f][1][s])])]]]
        pow2 == [b \in 1..Len(phi_state) |-> [f \in 1..Len(phi_state[b]) |->
                   [s \in 1..Len(phi_state[b][f]) |->
                      QMul(phi_state[b][f][s], phi_state[b][f][s])]]]
        action == [b \in 1..Len(phi_state) |-> [f \in 1..Len(phi_state[b]) |->
                     ISum([s \in 1..Len(phi_state[b][f]) |->
                             QMul(self.version_factor * (Q(2) + QMul(Q(1) \div 2, self.m_sq)),
                                  pow2[b][f][s])
                             + QMul(self.lam, QMul(pow2[b][f][s], pow2[b][f][s]))
                             - self.version_factor * coupling[b][f][s]])]]
    IN  [b \in 1..Len(action) |-> [f \in 1..Len(action[b]) |-> NumQ(-action[b][f])]]

(* -------------------------------- O2Action ----------------------------- *)

O2Action_init(beta, length) ==
    Built([kind |-> "O2Action",
           beta |-> beta,
           dimensions |-> <<1, length * length>>,
           shift |-> get_shift(length)])

\* O2Action_log_density returning the action, not its negation
O2Action_log_density_action(self, state) ==
    LET nb == Gather(state, self.shift)
        here == Unsqueeze2(state)
        action == [b \in 1..Len(nb) |-> [f \in 1..Len(nb[b]) |->
                     -QMul(self.beta,
                           ISum([s \in 1..Len(nb[b][f][1]) |->
                                   ISum([d \in 1..Len(nb[b][f]) |->
                                           TorchCos(nb[b][f][d][s] - here[b][f][1][s])])]))]]
    IN  [b \in 1..Len(action) |-> [f \in 1..Len(action[b]) |-> NumQ(action[b][f])]]

\* O2Action_log_density with the cosine of the sum of the two angles
O2Action_log_density_sum(self, state) ==
    LET nb == Gather(state, self.shift)
        here == Unsqueeze2(state)
        action == [b \in 1..Len(nb) |-> [f \in 1..Len(nb[b]) |->
                     -QMul(self.beta,
                           ISum([s \in 1..Len(nb[b][f][1]) |->
                                   ISum([d \in 1..Len(nb[b][f]) |->
                                           TorchCos(nb[b][f][d][s] + here[b][f][1][s])])]))]]
    IN  [b \in 1..Len(action) |-> [f \in 1..Len(action[b]) |-> NumQ(-action[b][f])]]

O2Action_log_density(self, state) ==
    LET nb == Gather(state, self.shift)
        here == Unsqueeze2(state)
        action == [b \in 1..Len(nb) |-> [f \in 1..Len(nb[b]) |->
                     -QMul(self.beta,
                           ISum([s \in 1..Len(nb[b][f][1]) |->
                                   ISum([d \in 1..Len(nb[b][f]) |->
                                           TorchCos(nb[b][f][d][s] - here[b][f][1][s])])]))]]
    IN  [b \in 1..Len(action) |-> [f \in 1..Len(action[b]) |-> NumQ(-action[b][f])]]

(* -------------------------------- O3Action ----------------------------- *)

O3Action_init(beta, length) ==
    Built([kind |-> "O3Action",
           dimensions |-> <<2, length * length>>,
           beta |-> beta,
           shift |-> get_shift(length)])

\* O3Action_log_density without the volume element
O3Action_log_density_no_volume(self, state) ==
    LET polar == [b \in 1..Len(state) |-> <<state[b][1]>>]
        azimuth == [b \in 1..Len(state) |-> <<state[b][2]>>]
        cos_polar == polar
        sin_polar == [b \in 1..Len(polar) |-> [f \in 1..1 |->
                        [s \in 1..Len(polar[b][f]) |-> SinPolar(polar[b][f][s])]]]
        cos_nb == Gather(cos_polar, self.shift)
        sin_nb == Gather(sin_polar, self.shift)
        az_nb == Gather(azimuth, self.shift)
        action == [b \in 1..Len(cos_nb) |-> [f \in 1..Len(cos_nb[b]) |->
                     -QMul(self.beta,
                           ISum([s \in 1..Len(cos_nb[b][f][1]) |->
                                   ISum([d \in 1..Len(cos_nb[b][f]) |->
                                           QMul(cos_nb[b][f][d][s], cos_polar[b][f][s])
                                           + QMul(QMul(sin_nb[b][f][d][s], sin_polar[b][f][s]),
                                                  TorchCos(az_nb[b][f][d][s]
                                                           - azimuth[b][f][s]))])]))]]
    IN  [b \in 1..Len(action) |-> [f \in 1..Len(action[b]) |-> NumQ(-action[b][f])]]

\* O3Action_log_density with the volume element taken of cos(theta)
O3Action_log_density_cos_volume(self, state) ==
    LET \* polar, azimuth = state.split(1, dim=1)
        polar == [b \in 1..Len(state) |-> <<state[b][1]>>]
        azimuth == [b \in 1..Len(state) |-> <<state[b][2]>>]
        cos_polar == polar
        sin_polar == [b \in 1..Len(polar) |-> [f \in 1..1 |->
                        [s \in 1..Len(polar[b][f]) |-> SinPolar(polar[b][f][s])]]]
        cos_nb == Gather(cos_polar, self.shift)
        sin_nb == Gather(sin_polar, self.shift)
        az_nb == Gather(azimuth, self.shift)
        action == [b \in 1..Len(cos_nb) |-> [f \in 1..Len(cos_nb[b]) |->
                     -QMul(self.beta,
                           ISum([s \in 1..Len(cos_nb[b][f][1]) |->
                                   ISum([d \in 1..Len(cos_nb[b][f]) |->
                                           QMul(cos_nb[b][f][d][s], cos_polar[b][f][s])
                                           + QMul(QMul(sin_nb[b][f][d][s], sin_polar[b][f][s]),
                                                  TorchCos(az_nb[b][f][d][s]
                                                           - azimuth[b][f][s]))])]))]]
        log_volume_element == [b \in 1..Len(sin_polar) |-> [f \in 1..1 |->
                                 NSum([s \in 1..Len(sin_polar[b][f]) |->
                                         TorchLog(cos_polar[b][f][s])])]]
    IN  [b \in 1..Len(action) |-> [f \in 1..Len(action[b]) |->
            NSub(log_volume_element[b][f], NumQ(action[b][f]))]]

O3Action_log_density(self, state) ==
    LET \* polar, azimuth = state.split(1, dim=1)
        polar == [b \in 1..Len(state) |-> <<state[b][1]>>]
        azimuth == [b \in 1..Len(state) |-> <<state[b][2]>>]
        cos_polar == polar
        sin_polar == [b \in 1..Len(polar) |-> [f \in 1..1 |->
                        [s \in 1..Len(polar[b][f]) |-> SinPolar(polar[b][f][s])]]]
        cos_nb == Gather(cos_polar, self.shift)
        sin_nb == Gather(sin_polar, self.shift)
        az_nb == Gather(azimuth, self.shift)
        action == [b \in 1..Len(cos_nb) |-> [f \in 1..Len(cos_nb[b]) |->
                     -QMul(self.beta,
                           ISum([s \in 1..Len(cos_nb[b][f][1]) |->
                                   ISum([d \in 1..Len(cos_nb[b][f]) |->
                                           QMul(cos_nb[b][f][d][s], cos_polar[b][f][s])
                                           + QMul(QMul(sin_nb[b][f][d][s], sin_polar[b][f][s]),
                                                  TorchCos(az_nb[b][f][d][s]
                                                           - azimuth[b][f][s]))])]))]]
        log_volume_element == [b \in 1..Len(sin_polar) |-> [f \in 1..1 |->
                                 NSum([s \in 1..Len(sin_polar[b][f]) |->
                                         TorchLog(sin_polar[b][f][s])])]]
    IN  [b \in 1..Len(action) |-> [f \in 1..Len(action[b]) |->
            NSub(log_volume_element[b][f], NumQ(action[b][f]))]]

(* ----------------------- the actions as a state machine ---------------- *)

\* constructor arguments tried: <<m_sq, lam>>
PhiFourParams == {<<Q(-4), 0>>, <<0, 0>>, <<Q(1), Q(1)>>}
Betas == {Q(-1), 0, Q(1)}
Lengths == 2..MaxLength

\* the values a site holds: a scalar; a planar angle; <<cos(polar), azimuth>>
ScalarValues == {<<Q(-2)>>, <<Q(1)>>}
AngleValues == {<<1>>, <<3>>}
SphereValues == {<<0, 0>>, <<-(Q(4) \div 5), 1>>}

\* the value v at every site
Everywhere(n, sites, v) ==
    [b \in 1..n |-> [f \in 1..Len(v) |-> [s \in 1..sites |-> v[f]]]]

\* the configuration t with site s of batch element b set to v
Excite(t, b, s, v) ==
    [t EXCEPT ![b] = [f \in 1..Len(v) |-> [t[b][f] EXCEPT ![s] = v[f]]]]

\* the configurations that differ from a uniform one at no more than two sites
\* of one batch element
Configurations(n, sites, V) ==
    LET uniform == {Everywhere(n, sites, v) : v \in V}
        once == {Excite(t, e[1], e[2], e[3]) : t \in uniform, e \in (1..n) \X (1..sites) \X V}
        twice == {Excite(Excite(t, e[1], e[2], e[4]), e[1], e[3], e[4]) :
                    t \in uniform, e \in (1..n) \X (1..sites) \X (1..sites) \X V}
    IN  uniform \cup once \cup twice

IsUniform(t) == \A b \in 1..Len(t) : \A f \in 1..Len(t[b]) : \A s \in 1..LastDim(t) :
                    t[b][f][s] = t[1][f][1]

\* a lattice of another size than the configuration's is tried with the
\* uniform configurations: what it raises depends on the shapes alone
Tried(length) == length * length = LastDim(cfg) \/ IsUniform(cfg)

AllConfigurations(V) ==
    UNION {Configurations(n, length * length, V) : n \in 1..MaxBatch, length \in Lengths}

HoldsField(t, V) ==
    \A b \in 1..Len(t) : \A s \in 1..LastDim(t) :
        [f \in 1..Len(t[b]) |-> t[b][f][s]] \in V

ActionInit ==
    /\ obj = NoObj
    /\ ctor = [fn |-> "none"]
    /\ cfg \in AllConfigurations(ScalarValues) \cup AllConfigurations(AngleValues)
               \cup AllConfigurations(SphereValues)
    /\ ret = NoTensor
    /\ err = "none"
    /\ op = [fn |-> "none"]
    /\ gen_log_prob = NoTensor
    /\ NoSampling
    /\ NoMultiprocessing

\* the effect of log_density(cfg): the tensor r, or the exception fault
Returned(fault, r, call) ==
    /\ ret' = IF fault = "none" THEN r ELSE NoTensor
    /\ err' = fault
    /\ op' = call
    /\ UNCHANGED <<obj, ctor, cfg, gen_log_prob>>
    /\ UNCHANGED <<sampler_vars, mp_vars>>

PhiFourInit ==
    /\ Fresh
    /\ HoldsField(cfg, ScalarValues)
    /\ \E p \in PhiFourParams, length \in Lengths, use_arxiv_version \in BOOLEAN :
          /\ Tried(length)
          /\ Construct(PhiFourAction_init(p[1], p[2], length, use_arxiv_version),
                    [fn |-> "PhiFourAction.__init__", m_sq |-> p[1], lam |-> p[2],
                     length |-> length, use_arxiv_version |-> use_arxiv_version])

O2Init ==
    /\ Fresh
    /\ HoldsField(cfg, AngleValues)
    /\ \E beta \in Betas, length \in Lengths :
          /\ Tried(length)
          /\ Construct(O2Action_init(beta, length),
                    [fn |-> "O2Action.__init__", beta |-> beta, length |-> length])

O3Init ==
    /\ Fresh
    /\ HoldsField(cfg, SphereValues)
    /\ \E beta \in Betas, length \in Lengths :
          /\ Tried(length)
          /\ Construct(O3Action_init(beta, length),
                    [fn |-> "O3Action.__init__", beta |-> beta, length |-> length])

PhiFourLogDensity ==
    /\ obj.kind = "PhiFourAction"
    /\ op.fn = "PhiFourAction.__init__"
    /\ LET fault == ShapeFault(obj, cfg)
       IN  Returned(fault,
                    IF fault = "none" THEN PhiFourAction_log_density(obj, cfg) ELSE NoTensor,
                    [fn |-> "PhiFourAction.log_density"])

O2LogDensity ==
    /\ obj.kind = "O2Action"
    /\ op.fn = "O2Action.__init__"
    /\ LET fault == ShapeFault(obj, cfg)
       IN  Returned(fault,
                    IF fault = "none" THEN O2Action_log_density(obj, cfg) ELSE NoTensor,
                    [fn |-> "O2Action.log_density"])

O3LogDensity ==
    /\ obj.kind = "O3Action"
    /\ op.fn = "O3Action.__init__"
    /\ LET fault == ShapeFault(obj, cfg)
       IN  Returned(fault,
                    IF fault = "none" THEN O3Action_log_density(obj, cfg) ELSE NoTensor,
                    [fn |-> "O3Action.log_density"])

ActionNext ==
    \/ PhiFourInit \/ O2Init \/ O3Init
    \/ PhiFourLogDensity \/ O2LogDensity \/ O3LogDensity

ActionSpec == ActionInit /\ [][ActionNext]_vars

(* ------------------- distributions and actions together --------------- *)

DistKinds == {"NormalDist", "UniformDist", "SemicircleDist", "VonMisesDist",
              "SphericalUniformDist"}

\* the state is one of the distributions' state machine
DistTurn == cfg = NoTensor \/ obj.kind \in DistKinds

LifeInit == Init \/ ActionInit

LifeNext ==
    \/ DistTurn /\ NormalInit
    \/ DistTurn /\ UniformInit
    \/ DistTurn /\ SemicircleInit
    \/ DistTurn /\ VonMisesInit
    \/ DistTurn /\ SphericalUniformInit
    \/ DistTurn /\ NormalCall
    \/ DistTurn /\ UniformCall
    \/ DistTurn /\ SemicircleCall
    \/ DistTurn /\ VonMisesCall
    \/ DistTurn /\ SphericalUniformCall
    \/ DistTurn /\ NormalLogDensity
    \/ DistTurn /\ UniformLogDensity
    \/ DistTurn /\ SemicircleLogDensity
    \/ DistTurn /\ VonMisesLogDensity
    \/ DistTurn /\ SphericalUniformLogDensity
    \/ DistTurn /\ Discard
    \/ DistTurn /\ Supply
    \/ ~DistTurn /\ PhiFourInit
    \/ ~DistTurn /\ O2Init
    \/ ~DistTurn /\ O3Init
    \/ ~DistTurn /\ PhiFourLogDensity
    \/ ~DistTurn /\ O2LogDensity
    \/ ~DistTurn /\ O3LogDensity

\* the life of one object, a distribution or an action
LifeSpec == LifeInit /\ [][LifeNext]_vars

(* --------------------------- concurrent sampling ----------------------- *)

(* Every sampler takes its random numbers from torch's default generator:   *)
(* no __call__ passes a generator of its own to torch.randn, torch.rand or  *)
(* Tensor.uniform_.  The default generator is one object per process; a     *)
(* draw of k numbers takes the next k numbers of its stream, atomically,    *)
(* and advances it.  A draw is identified by the offset in the stream it    *)
(* started at.                                                              *)

\* the methods invoked concurrently on one distribution object
SamplerMethods == {"NormalDist.__call__", "UniformDist.__call__", "SemicircleDist.__call__",
                   "SphericalUniformDist.__call__", "log_density"}

\* the draws from the default generator a method makes, in order: how many
\* numbers each takes for one tensor entry (log_density draws nothing)
DrawsOf(method) ==
    CASE method = "NormalDist.__call__" -> <<1>>
      [] method = "UniformDist.__call__" -> <<1>>
      [] method = "SemicircleDist.__call__" -> <<1, 1>>
      [] method = "SphericalUniformDist.__call__" -> <<1, 1>>
      [] method = "log_density" -> <<>>

\* the two callers
Callers == {1, 2}

NoDist ==
    /\ obj = NoObj
    /\ ctor = [fn |-> "none"]
    /\ cfg = NoTensor
    /\ ret = NoTensor
    /\ err = "none"
    /\ op = [fn |-> "none"]
    /\ gen_log_prob = NoTensor

\* each caller is about to invoke a method of a distribution of n_lattice sites
SamplerInit ==
    /\ NoDist
    /\ NoMultiprocessing
    /\ default_generator = 0
    /\ \E n_lattice \in 1..MaxLattice :
          threads \in [Callers -> [method : SamplerMethods,
                                   numel : {sample_size * n_lattice : sample_size \in 1..MaxBatch},
                                   got : {<<>>},
                                   returned : {FALSE}]]

\* a caller executes its next normal_ / uniform_ / torch.rand
TorchDraw ==
    \E t \in Callers :
        /\ ~threads[t].returned
        /\ Len(threads[t].got) < Len(DrawsOf(threads[t].method))
        /\ threads' = [threads EXCEPT ![t].got = Append(@, default_generator)]
        /\ default_generator' = default_generator
                                + DrawsOf(threads[t].method)[Len(threads[t].got) + 1]
                                  * threads[t].numel
        /\ UNCHANGED <<dist_vars, mp_vars>>

\* a caller's method returns what it computed from its draws
MethodReturn ==
    \E t \in Callers :
        /\ ~threads[t].returned
        /\ Len(threads[t].got) = Len(DrawsOf(threads[t].method))
        /\ threads' = [threads EXCEPT ![t].returned = TRUE]
        /\ UNCHANGED <<default_generator, dist_vars, mp_vars>>

SamplerNext == TorchDraw \/ MethodReturn

SamplerSpec == SamplerInit /\ [][SamplerNext]_vars

(* ------------------------- utils.Multiprocessing ----------------------- *)

\* math.ceil(n / d) with the quotient rounded down instead
Ceil_floor(n, d) == n \div d

\* math.ceil(n / d) for integers n >= 0, d >= 1
Ceil(n, d) == (n + d - 1) \div d

Min(a, b) == IF a < b THEN a ELSE b

\* the function handed to Multiprocessing, applied to one parameter set
func(args) == args * args + 1

\* the parameter sets generator() yields, the same at every call: two shapes
Generators(n_iters) == {[i \in 1..n_iters |-> 2 * i + 1], [i \in 1..n_iters |-> 3]}

Multiprocessing_init(generator, n_cores) ==
    [kind |-> "Multiprocessing",
     generator |-> generator,
     n_iters |-> Len(generator),
     n_cores |-> n_cores,
     max_chunk |-> Ceil(Len(generator), n_cores)]

\* list(islice(iterable, start, stop)) for 0 <= start
ISlice(iterable, start, stop) ==
    [j \in 1..(Min(stop, Len(iterable)) - start) |-> iterable[start + j]]

\* generator_k of target(k, output_dict)
Generator_k(self, k) ==
    ISlice(self.generator, k * self.max_chunk, Min((k + 1) * self.max_chunk, self.n_iters))

\* d[key] = value
SetItem(d, key, value) ==
    [x \in DOMAIN d \cup {key} |-> IF x = key THEN value ELSE d[x]]

MultiprocessingInit ==
    /\ NoDist
    /\ NoSampling
    /\ NoMultiprocessing

\* Multiprocessing(func, generator); USE_MULTIPROCESSING = False is n_cores = 1
Multiprocessing_construct ==
    /\ main.pc = "idle"
    /\ \E n_iters \in 0..MaxIters, n_cores \in 1..MaxCores :
          \E generator \in Generators(n_iters) :
             mp' = Multiprocessing_init(generator, n_cores)
    /\ main' = [pc |-> "constructed"]
    /\ UNCHANGED <<procs, output_dict, writes, dist_vars, sampler_vars>>

\* __call__: output_dict = manager.dict()
Multiprocessing_call ==
    /\ main.pc = "constructed"
    /\ output_dict' = <<>>
    /\ main' = [pc |-> "start", k |-> 0]
    /\ UNCHANGED <<mp, procs, writes, dist_vars, sampler_vars>>

\* __call__: one turn of the loop that creates and starts the processes
ProcessStart ==
    /\ main.pc = "start"
    /\ procs' = Append(procs, [state |-> "running", i |-> 0])
    /\ main' = IF main.k + 1 < mp.n_cores THEN [main EXCEPT !.k = @ + 1]
               ELSE [pc |-> "join", k |-> 0]
    /\ UNCHANGED <<mp, output_dict, writes, dist_vars, sampler_vars>>

\* target(k, output_dict): one turn of the loop over generator_k
TargetStep ==
    \E k \in 0..(Len(procs) - 1) :
        LET p == procs[k + 1]
            generator_k == Generator_k(mp, k)
            i_glob == k * mp.max_chunk
        IN  /\ p.state = "running"
            /\ p.i < Len(generator_k)
            /\ output_dict' = SetItem(output_dict, i_glob + p.i, func(generator_k[p.i + 1]))
            /\ writes' = writes \cup {<<i_glob + p.i, k>>}
            /\ procs' = [procs EXCEPT ![k + 1].i = @ + 1]
            /\ UNCHANGED <<mp, main, dist_vars, sampler_vars>>

\* target(k, output_dict) returns and the process ends
TargetReturn ==
    \E k \in 0..(Len(procs) - 1) :
        /\ procs[k + 1].state = "running"
        /\ procs[k + 1].i = Len(Generator_k(mp, k))
        /\ procs' = [procs EXCEPT ![k + 1].state = "finished"]
        /\ UNCHANGED <<mp, output_dict, writes, main, dist_vars, sampler_vars>>

\* __call__: p.join() returns once the process has ended
ProcessJoin ==
    /\ main.pc = "join"
    /\ procs[main.k + 1].state = "finished"
    /\ main' = IF main.k + 1 < Len(procs) THEN [main EXCEPT !.k = @ + 1]
               ELSE [pc |-> "returned"]
    /\ UNCHANGED <<mp, procs, output_dict, writes, dist_vars, sampler_vars>>

MultiprocessingNext ==
    \/ Multiprocessing_construct \/ Multiprocessing_call
    \/ ProcessStart \/ TargetStep \/ TargetReturn \/ ProcessJoin

MultiprocessingSpec == MultiprocessingInit /\ [][MultiprocessingNext]_vars

(* ======================= claims on the distributions =================== *)

CallFns == {"NormalDist.__call__", "UniformDist.__call__", "SemicircleDist.__call__",
            "VonMisesDist.__call__", "SphericalUniformDist.__call__"}

\* what obj.log_density(t) returns, by the class of obj
LogDensityOf(o, t) ==
    CASE o.kind = "NormalDist" -> NormalDist_log_density(o, t)
      [] o.kind = "UniformDist" -> UniformDist_log_density(o, t)
      [] o.kind = "SemicircleDist" -> SemicircleDist_log_density(o, t)
      [] o.kind = "VonMisesDist" -> VonMisesDist_log_density(o, t)
      [] o.kind = "SphericalUniformDist" -> SphericalUniformDist_log_density(o, t)

(* C1: the log-density VonMisesDist.__call__ returns is the log-density of  *)
(* the distribution the returned configuration was drawn from: the draw of  *)
(* the circular sampler for location mean, moved by +pi, has per site the   *)
(* density exp(kappa cos(x - mean)) / (2 pi I0(kappa)) that log_density     *)
(* reports.  (A translation has unit Jacobian, so the density of the moved  *)
(* draw at x is the sampler's density at the draw.)                         *)
C1_VonMisesSampleDensity ==
    op.fn = "VonMisesDist.__call__" => ret = gen_log_prob

(* C2: UniformDist.log_density is -n_lattice * log(hi - lo) for every batch *)
(* element: the per-site normalisation is counted once per lattice site.    *)
C2_UniformPerSite ==
    (obj.kind = "UniformDist" /\ op.fn \in {"UniformDist.__call__", "UniformDist.log_density"})
    => /\ Len(ret) = Len(cfg)
       /\ \A b \in 1..Len(ret) :
            ret[b] = <<NNeg(NScale(ctor.n_lattice,
                                   NumLg(LgOfRatio(ctor.support[2] - ctor.support[1], QDen))))>>

(* C8: for every base distribution and every sample size, the log-density   *)
(* a sample call returns is what log_density recomputes for the             *)
(* configuration the same call returned, one value per batch element.       *)
C8_SampleAgreesWithLogDensity ==
    op.fn \in CallFns
    => /\ ret = LogDensityOf(obj, cfg)
       /\ Len(ret) = op.sample_size
       /\ \A b \in 1..Len(ret) : Len(ret[b]) = 1

\* a sample call of SphericalUniformDist (the inline expression) returned a
\* batch of two with a finite, nonzero log-density
C8_Witness ==
    /\ op.fn = "SphericalUniformDist.__call__"
    /\ Len(cfg) = 2
    /\ ret[1][1] # NumQ(0)
    /\ ret[1][1].ninf = 0

InvalidCtor ==
    \/ ctor.fn = "NormalDist.__init__" /\ ctor.sigma <= 0
    \/ ctor.fn = "UniformDist.__init__" /\ ctor.support[2] <= ctor.support[1]
    \/ ctor.fn = "SemicircleDist.__init__" /\ ctor.radius <= 0
    \/ ctor.fn = "VonMisesDist.__init__" /\ ctor.concentration < 0

(* C10: constructing a base distribution with invalid parameters (sigma <=  *)
(* 0, hi <= lo, radius <= 0, concentration < 0) always fails at             *)
(* construction, with the exception the code has for a ConfigurationError:  *)
(* no such object is ever constructed, and none is sampled from.            *)
C10_InvalidParametersRejected ==
    InvalidCtor => (err # "none" /\ obj = NoObj /\ op.fn \notin CallFns)

(* ========================== claims on the actions ====================== *)

PhiFourDone == op.fn = "PhiFourAction.log_density" /\ err = "none"

O2Done == op.fn = "O2Action.log_density" /\ err = "none"

O3Done == op.fn = "O3Action.log_density" /\ err = "none"

\* version_factor as the claims define it
VersionFactor == IF ctor.use_arxiv_version THEN 2 ELSE 1

\* the per-site term of the phi^4 action at site s of the field phi
PhiFourSiteTerm(phi, s) ==
    VersionFactor * QMul(Q(2) + ctor.m_sq \div 2, QMul(phi[s], phi[s]))
    + QMul(ctor.lam, QMul(QMul(phi[s], phi[s]), QMul(phi[s], phi[s])))
    - VersionFactor * ISum([d \in 1..Len(obj.shift) |-> QMul(phi[s], phi[obj.shift[d][s]])])

(* C3: PhiFourAction.log_density is, per batch element, minus the sum over  *)
(* the sites of version_factor (2 + m_sq/2) phi^2 + lam phi^4               *)
(* - version_factor * sum over directions of phi(site) phi(neighbour), with *)
(* version_factor 2 under use_arxiv_version and 1 otherwise; the quartic    *)
(* term is not scaled.                                                      *)
C3_PhiFourFormula ==
    PhiFourDone
    => /\ Len(ret) = Len(cfg)
       /\ \A b \in 1..Len(cfg) :
            ret[b] = <<NumQ(-ISum([s \in 1..LastDim(cfg) |-> PhiFourSiteTerm(cfg[b][1], s)]))>>

C3_Witness ==
    /\ PhiFourDone
    /\ ctor.use_arxiv_version
    /\ ctor.lam # 0
    /\ Len(cfg) = 2
    /\ ~IsUniform(cfg)

\* the field value at the point (x, y) of a periodic lattice of side l
At(phi, x, y, l) == phi[(x % l) * l + (y % l) + 1]

\* the nearest-neighbour coupling sum by a double loop over the lattice
DoubleLoop(phi, l) ==
    ISum([i \in 1..l |->
            ISum([j \in 1..l |->
                    QMul(At(phi, i - 1, j - 1, l),
                         At(phi, i, j - 1, l) + At(phi, i - 1, j, l))])])

SumOfSquares(phi) == ISum([s \in 1..Len(phi) |-> QMul(phi[s], phi[s])])

FreeTwoByTwo ==
    PhiFourDone /\ ctor.length = 2 /\ ctor.lam = 0 /\ ctor.m_sq = 0

(* C4 as stated: with m_sq = 0 and lam = 0, log_density on the 2x2 periodic *)
(* lattice is the pure nearest-neighbour coupling sum of the double-loop    *)
(* reference, with no quadratic and no quartic contribution.                *)
C4_PureCouplingAtZeroMass ==
    FreeTwoByTwo
    => \A b \in 1..Len(cfg) :
          ret[b] = <<NumQ(VersionFactor * DoubleLoop(cfg[b][1], 2))>>

(* C4 amended: with m_sq = 0 and lam = 0, log_density on the 2x2 periodic   *)
(* lattice is version_factor times (the double-loop coupling sum minus      *)
(* 2 * sum of phi^2): there is no quartic contribution, the quadratic term  *)
(* version_factor * 2 * phi^2 remains.  The pure coupling sum is what       *)
(* m_sq = -4, lam = 0 gives.                                                *)
C4_CouplingMinusQuadratic ==
    /\ FreeTwoByTwo
       => \A b \in 1..Len(cfg) :
             ret[b] = <<NumQ(VersionFactor * (DoubleLoop(cfg[b][1], 2)
                                               - 2 * SumOfSquares(cfg[b][1])))>>
    /\ (PhiFourDone /\ ctor.length = 2 /\ ctor.lam = 0 /\ ctor.m_sq = Q(-4))
       => \A b \in 1..Len(cfg) :
             ret[b] = <<NumQ(VersionFactor * DoubleLoop(cfg[b][1], 2))>>

C4_Witness == FreeTwoByTwo /\ ~IsUniform(cfg) /\ ctor.use_arxiv_version

\* the O(3) coupling of site s with its neighbours; polar holds cos(theta)
O3SiteCoupling(polar, azimuth, s) ==
    ISum([d \in 1..Len(obj.shift) |->
            QMul(polar[s], polar[obj.shift[d][s]])
            + QMul(QMul(SinPolar(polar[s]), SinPolar(polar[obj.shift[d][s]])),
                   TorchCos(azimuth[s] - azimuth[obj.shift[d][s]]))])

O3ActionOf(state) ==
    -QMul(ctor.beta, ISum([s \in 1..Len(state[1]) |-> O3SiteCoupling(state[1], state[2], s)]))

O3VolumeOf(state) == NSum([s \in 1..Len(state[1]) |-> TorchLog(SinPolar(state[1][s]))])

(* C5: O3Action.log_density is volume_element_log_density - action per      *)
(* batch element, action = -beta * sum over sites and directions of         *)
(* cos(theta) cos(theta_nb) + sin(theta) sin(theta_nb) cos(phi - phi_nb),   *)
(* volume element = sum over sites of log(sin(theta)); the volume element   *)
(* is exactly 0 when theta = pi/2 at every site.                            *)
C5_O3Formula ==
    O3Done
    => /\ Len(ret) = Len(cfg)
       /\ \A b \in 1..Len(cfg) :
            /\ ret[b] = <<NSub(O3VolumeOf(cfg[b]), NumQ(O3ActionOf(cfg[b])))>>
            /\ (\A s \in 1..LastDim(cfg) : cfg[b][1][s] = 0)
               => ret[b] = <<NumQ(-O3ActionOf(cfg[b]))>>

C5_Witness ==
    /\ O3Done
    /\ ctor.beta # 0
    /\ ~IsUniform(cfg)
    /\ ret[1][1].lg # ZeroLg
    /\ ret[1][1].q # 0

\* the sum over sites and directions of cos(angle(site) - angle(neighbour))
O2CouplingSum(angle) ==
    ISum([s \in 1..Len(angle) |->
            ISum([d \in 1..Len(obj.shift) |->
                    TorchCos(angle[s] - angle[obj.shift[d][s]])])])

(* C6: O2Action.log_density is, per batch element, the negation of the      *)
(* action -beta * sum over sites and directions of cos(angle(site) -        *)
(* angle(neighbour)): +beta times the coupling sum, so that for beta > 0    *)
(* no configuration has a larger log-density than the fully aligned one.    *)
C6_O2SignChain ==
    O2Done
    => /\ Len(ret) = Len(cfg)
       /\ \A b \in 1..Len(cfg) :
            /\ ret[b] = <<NumQ(QMul(ctor.beta, O2CouplingSum(cfg[b][1])))>>
            /\ ctor.beta > 0
               => /\ ret[b][1].q <= QMul(ctor.beta, Q(Len(obj.shift) * LastDim(cfg)))
                  /\ (\A s \in 1..LastDim(cfg) : cfg[b][1][s] = cfg[b][1][1])
                     => ret[b][1].q = QMul(ctor.beta, Q(Len(obj.shift) * LastDim(cfg)))

C6_Witness == O2Done /\ ctor.beta > 0 /\ ~IsUniform(cfg)

\* the rotation angles tried, in units of pi/3
Rotations == {-1, 1, 2, 3, 7}

Rotated(t, c) ==
    [b \in 1..Len(t) |-> [f \in 1..Len(t[b]) |-> [s \in 1..Len(t[b][f]) |-> t[b][f][s] + c]]]

(* C7: O2Action.log_density is invariant under a global rotation: adding    *)
(* the same constant to the angle at every site of every batch element      *)
(* leaves the returned log-density unchanged.                               *)
C7_O2RotationInvariant ==
    O2Done => \A c \in Rotations : O2Action_log_density(obj, Rotated(cfg, c)) = ret

C7_Witness == O2Done /\ ctor.beta # 0 /\ ~IsUniform(cfg) /\ Len(cfg) = 2 /\ ret[1] # ret[2]

\* a probe field on n sites: value v on the sites of S, 0 elsewhere
Probe(n, S, v) == [s \in 1..n |-> IF s \in S THEN v ELSE 0]

\* the log-density the action o gives the probe field with the sites of S marked:
\* phi = 1 on S for the scalar field, the spin turned by pi on S (in the
\* equatorial plane theta = pi/2 for O(3)) for the spin models
ProbeDensity(o, S) ==
    LET n == Len(o.shift[1])
    IN  CASE o.kind = "PhiFourAction" ->
               PhiFourAction_log_density(o, <<<<Probe(n, S, Q(1))>>>>)[1][1].q
          [] o.kind = "O2Action" ->
               O2Action_log_density(o, <<<<Probe(n, S, Pi)>>>>)[1][1].q
          [] o.kind = "O3Action" ->
               O3Action_log_density(o, <<<<Probe(n, {}, 0), Probe(n, S, Pi)>>>>)[1][1].q

\* how many times the product of the fields at the sites a and b enters the
\* coupling sum of o: the mixed second difference of the log-density, in units
\* of the contribution of one bond
PairCount(o, a, b) ==
    LET mixed == ProbeDensity(o, {a, b}) - ProbeDensity(o, {a})
                 - ProbeDensity(o, {b}) + ProbeDensity(o, {})
    IN  IF o.kind = "PhiFourAction" THEN mixed \div (o.version_factor * QDen)
        ELSE mixed \div (4 * o.beta)

\* a and b are nearest neighbours on the periodic lattice of side l
Adjacent(a, b, l) ==
    LET xa == (a - 1) \div l
        ya == (a - 1) % l
        xb == (b - 1) \div l
        yb == (b - 1) % l
    IN  \/ ya = yb /\ (xa - xb) % l \in {1, l - 1}
        \/ xa = xb /\ (ya - yb) % l \in {1, l - 1}

\* a coupled action has just been constructed, the vacuum configuration at hand
Coupled ==
    /\ op.fn \in {"PhiFourAction.__init__", "O2Action.__init__", "O3Action.__init__"}
    /\ err = "none"
    /\ op.fn # "PhiFourAction.__init__" => obj.beta # 0
    /\ Len(cfg) = 1
    /\ IsUniform(cfg)
    /\ LastDim(cfg) = ctor.length * ctor.length

(* C9 as stated: the three actions sum the coupling over positive directions *)
(* only, so every undirected nearest-neighbour pair of sites enters the     *)
(* coupling sum exactly once, and no other pair enters it, on every lattice *)
(* including the 2x2 periodic one.                                          *)
C9_EveryEdgeOnce ==
    Coupled
    => \A a \in 1..LastDim(cfg) : \A b \in (a + 1)..LastDim(cfg) :
          PairCount(obj, a, b) = IF Adjacent(a, b, ctor.length) THEN 1 ELSE 0

(* C9 amended: the three actions sum the coupling over positive directions  *)
(* only; every nearest-neighbour pair of sites enters the coupling sum      *)
(* exactly once on a periodic lattice of side 3 or more, and exactly twice  *)
(* on the 2x2 periodic lattice, where the positive and the negative         *)
(* neighbour of a site are the same site; no other pair enters it.          *)
C9_EveryBondOnce ==
    Coupled
    => \A a \in 1..LastDim(cfg) : \A b \in (a + 1)..LastDim(cfg) :
          PairCount(obj, a, b) = IF ~Adjacent(a, b, ctor.length) THEN 0
                                 ELSE IF ctor.length = 2 THEN 2 ELSE 1

C9_Witness == Coupled /\ ctor.length = 2 /\ obj.kind = "O3Action" /\ PairCount(obj, 1, 2) = 2

(* ============================ claims on errors ========================= *)

LogDensityFns == {"PhiFourAction.log_density", "O2Action.log_density", "O3Action.log_density"}

\* log_density was called with a configuration of another size than the lattice
Mismatched == op.fn \in LogDensityFns /\ LastDim(cfg) # ctor.length * ctor.length

(* C11: log_density of any action, called with a configuration whose number *)
(* of lattice sites differs from the n_lattice of the geometry the action   *)
(* was built from, raises a ShapeError and returns no value.                *)
C11_MismatchRaisesShapeError ==
    Mismatched => (err = "ShapeError" /\ ret = NoTensor)

\* SemicircleDist.log_density was called on a configuration with a site
\* outside the support, the distribution having a positive radius
OutsideSupport ==
    /\ op.fn = "SemicircleDist.log_density"
    /\ ctor.radius > 0
    /\ \E b \in 1..Len(cfg) : \E s \in 1..LastDim(cfg) :
          Abs(cfg[b][1][s] - ctor.mean) > ctor.radius

(* C12: SemicircleDist.log_density, given a configuration in which some     *)
(* site value x has |x - mean| > radius, raises an error at that call and   *)
(* returns no value, in particular no NaN.                                  *)
C12_OutsideSupportRaises ==
    OutsideSupport => (err # "none" /\ ret = NoTensor)

(* ========================== claims on concurrency ====================== *)

\* the offsets of the draws of a call that runs with no other call beside it
AloneOffsets(th) ==
    [i \in 1..Len(DrawsOf(th.method)) |->
        ISum([j \in 1..(i - 1) |-> DrawsOf(th.method)[j] * th.numel])]

(* C13: no invocation of sample or log_density writes to state shared with  *)
(* another invocation: whatever the interleaving of two concurrent calls,   *)
(* each call gets the random numbers, and so the result, it gets when it    *)
(* runs alone; two concurrent sample calls never draw from one shared       *)
(* generator.                                                               *)
C13_SchedulingIndependent ==
    \A t \in Callers : threads # <<>> /\ threads[t].returned
                       => threads[t].got = AloneOffsets(threads[t])

(* C14: when Multiprocessing.__call__ returns, every worker process has     *)
(* finished and the returned dictionary has exactly the keys                *)
(* 0..n_iters-1, key i holding func of the i-th parameter set; each key is  *)
(* written by exactly one worker, and at no time have two workers written   *)
(* the same key.                                                            *)
C14_MultiprocessingResult ==
    /\ \A v \in writes : \A w \in writes : v[1] = w[1] => v = w
    /\ main.pc = "returned"
       => /\ Len(procs) = mp.n_cores
          /\ \A k \in 1..Len(procs) : procs[k].state = "finished"
          /\ DOMAIN output_dict = 0..(mp.n_iters - 1)
          /\ \A i \in 0..(mp.n_iters - 1) :
                /\ output_dict[i] = func(mp.generator[i + 1])
                /\ Cardinality({w \in writes : w[1] = i}) = 1

C14_Witness ==
    /\ main.pc = "returned"
    /\ mp.n_iters >= 3
    /\ mp.n_cores >= 2
    /\ mp.n_iters % mp.n_cores # 0
    /\ Cardinality({w[2] : w \in writes}) >= 2

(* ======================= claims on the objects' state ================== *)

(* C15: the parameters of a distribution or action are fixed at             *)
(* construction: no __call__ and no log_density changes any attribute of    *)
(* the object (mean, sigma, support bounds, radius, concentration, coupling *)
(* constants, version_factor, log_normalisation, shift table).              *)
C15_ParametersFixed == [][obj # NoObj => obj' = obj]_vars

C15_Witness ==
    /\ op.fn = "UniformDist.log_density"
    /\ ret # NoTensor
    /\ obj.x_max = ctor.support[2]
    /\ obj.dimensions = <<1, ctor.n_lattice>>

(* ========================= claims on the samplers ====================== *)

\* the Num a is a finite real
Finite(a) == ~a.nan /\ a.ninf = 0 /\ a.pinf = 0

(* C16: for radius > 0, every value SemicircleDist.__call__ produces lies   *)
(* strictly inside the support, |x - mean| < radius at every site, so that  *)
(* radius^2 - (x - mean)^2 > 0 and the log-density returned with the sample *)
(* is defined.                                                              *)
C16_SemicircleInsideSupport ==
    (op.fn = "SemicircleDist.__call__" /\ ctor.radius > 0)
    => \A b \in 1..Len(cfg) :
          /\ \A s \in 1..LastDim(cfg) :
                /\ Abs(cfg[b][1][s] - ctor.mean) < ctor.radius
                /\ QMul(ctor.radius, ctor.radius)
                   - QMul(cfg[b][1][s] - ctor.mean, cfg[b][1][s] - ctor.mean) > 0
          /\ Finite(ret[b][1])

C16_Witness ==
    /\ op.fn = "SemicircleDist.__call__"
    /\ ctor.radius > 0
    /\ ctor.mean # 0
    /\ LastDim(cfg) = 2
    /\ 5 * (cfg[1][1][1] - ctor.mean) = 4 * ctor.radius
    /\ cfg[1][1][2] < ctor.mean

(* ================== claims relating actions and distributions ========== *)

(* C17: with beta = 0, O3Action.log_density of a configuration of shape     *)
(* (sample_size, 2, n_lattice) equals SphericalUniformDist.log_density of   *)
(* the same configuration, the sum over sites of log(sin(theta)) read from  *)
(* the first component, with one value per batch element in both.           *)
C17_O3VolumeMirrorsSphericalUniform ==
    (O3Done /\ ctor.beta = 0)
    => /\ ret = SphericalUniformDist_log_density(
                    SphericalUniformDist_init(LastDim(cfg)).obj, cfg)
       /\ Len(ret) = Len(cfg)
       /\ \A b \in 1..Len(ret) : Len(ret[b]) = 1

C17_Witness ==
    /\ O3Done
    /\ ctor.beta = 0
    /\ Len(cfg) = 2
    /\ \E s \in 1..LastDim(cfg) : cfg[1][1][s] # 0 /\ cfg[1][2][s] # 0
    /\ ret[1] # ret[2]

====
